---- MODULE Spec2Model ----
(***************************************************************************)
(* Model of router/api.go: AWSServerlessApi.Swagger picks and reads the    *)
(* Swagger definition of an AWS::Serverless::Api resource, and             *)
(* AWSServerlessApi.Mounts turns the parsed definition into the list of    *)
(* ServerlessRouterMount's (path, method, Lambda function).                *)
(*                                                                         *)
(* One behaviour is one call of Mounts on one API resource.  The resource, *)
(* and the definition text its source holds, are chosen in Init; whether   *)
(* the file system or S3 delivers the text is chosen when Swagger reads.   *)
(***************************************************************************)
EXTENDS Naturals, Sequences, FiniteSets

VARIABLES
    api,            \* the AWS::Serverless::Api resource (DefinitionUri, DefinitionBody)
    text,           \* the definition the populated source holds
    pc,             \* position of the call: start, parse, range, loop, done, panic
    jsonDefinition, \* Mounts' local: the bytes Swagger returned
    consulted,      \* the source readers Swagger has called
    stages,         \* the stages of Mounts that have run, in order
    todo,           \* paths of swagger.Paths.Paths the range loop has not visited
    mounts,         \* Mounts' local slice
    origin,         \* per element of mounts: appended by the method loop or the any-method loop
    mappedMethods,  \* per visited path, the mappedMethods map of its iteration
    ret             \* what Mounts returned: [mounts, err]

vars == <<api, text, pc, jsonDefinition, consulted, stages, todo, mounts, origin,
          mappedMethods, ret>>

----------------------------------------------------------------------------
(* Bounds *)

\* most operations a document of the two-path family defines, over all its paths
MaxOps == 1

\* the route templates of the documents
PathNames == {"/a", "/b"}

NIL == "nil"

----------------------------------------------------------------------------
(* The supported methods and strings.ToLower on them *)

HttpMethods == <<"GET", "POST", "PUT", "DELETE", "PATCH", "HEAD", "OPTIONS">>

ToLower ==
    [m \in {"GET", "POST", "PUT", "DELETE", "PATCH", "HEAD", "OPTIONS"} |->
        CASE m = "GET" -> "get"
          [] m = "POST" -> "post"
          [] m = "PUT" -> "put"
          [] m = "DELETE" -> "delete"
          [] m = "PATCH" -> "patch"
          [] m = "HEAD" -> "head"
          [] m = "OPTIONS" -> "options"]

Range(s) == {s[i] : i \in 1..Len(s)}

Verbs == {ToLower[m] : m \in Range(HttpMethods)}

----------------------------------------------------------------------------
(* JSON values of the document that the code looks at *)

\* the "uri" member of an integration object
NoUri == [kind |-> "none", fn |-> ""]
OtherUri == [kind |-> "other", fn |-> ""]
NonStringUri == [kind |-> "nonstring", fn |-> ""]
LambdaUri(f) == [kind |-> "lambda", fn |-> f]

\* the value of an x-amazon-apigateway-integration member
\* shape "nil": the member is missing or JSON null (a nil interface{} in Go)
NilPayload == [shape |-> "nil", uri |-> NoUri]
ScalarPayload == [shape |-> "scalar", uri |-> NoUri]
ObjectPayload(u) == [shape |-> "object", uri |-> u]

\* an entry of PathItemProps: the *Operation is nil, or an Operation with its extension
NoOperation == [present |-> FALSE, ext |-> NilPayload]
Operation(p) == [present |-> TRUE, ext |-> p]

\* the x-amazon-apigateway-any-method member of a path item
NoAnyMethod == [shape |-> "absent", integration |-> NilPayload]
NullAnyMethod == [shape |-> "null", integration |-> NilPayload]
ScalarAnyMethod == [shape |-> "scalar", integration |-> NilPayload]
ObjectAnyMethod(p) == [shape |-> "object", integration |-> p]

PathItem(o, a) == [ops |-> o, any |-> a]

\* a definition text: not JSON of a Swagger document, a document without
\* "paths" (swagger.Paths is nil), or a document with its paths
Garbage == [kind |-> "garbage", paths |-> <<>>]
NoPathsDocument == [kind |-> "nopaths", paths |-> <<>>]
Document(ps) == [kind |-> "document", paths |-> ps]

----------------------------------------------------------------------------
(* The documents and API resources a call is checked on *)

\* the values an operation's integration extension takes
OpPayloads ==
    {NilPayload, ScalarPayload, ObjectPayload(NonStringUri), ObjectPayload(OtherUri),
     ObjectPayload(LambdaUri("fn-a"))}

\* the values a path's any-method extension takes
AnyMethods ==
    {NoAnyMethod, NullAnyMethod, ScalarAnyMethod, ObjectAnyMethod(NilPayload),
     ObjectAnyMethod(ScalarPayload), ObjectAnyMethod(ObjectPayload(LambdaUri("fn-any")))}

\* one path, every method free: an operation without the extension, with a
\* well-formed one, with a malformed one
WideOperations ==
    {Operation(NilPayload), Operation(ScalarPayload),
     Operation(ObjectPayload(LambdaUri("fn-a")))}

WideDocument(o, a) == Document([p \in {"/a"} |-> PathItem(o, a)])

\* every path, at most MaxOps operations in the document, each with any extension value
Slots == PathNames \X Verbs

SlotSets == {S \in SUBSET Slots : Cardinality(S) <= MaxOps}

CrossDocument(S, f, a) ==
    Document([p \in PathNames |->
        PathItem([v \in Verbs |-> IF <<p, v>> \in S THEN Operation(f[<<p, v>>])
                                                   ELSE NoOperation],
                 a[p])])

\* the definitions tried with every API resource
SmallDefinitions ==
    {Garbage, NoPathsDocument, Document(<<>>),
     Document([p \in {"/a"} |->
        PathItem([v \in Verbs |-> IF v = "get"
                                    THEN Operation(ObjectPayload(LambdaUri("fn-a")))
                                    ELSE NoOperation],
                 ObjectAnyMethod(ObjectPayload(LambdaUri("fn-any"))))])}

\* DefinitionUri is nil, or a struct whose String and S3Location are nil or not;
\* DefinitionBody is nil, a string, a map[string]interface{} or a value of another type
DefinitionUris ==
    {[nil |-> TRUE, String |-> FALSE, S3Location |-> FALSE]}
        \cup [nil : {FALSE}, String : BOOLEAN, S3Location : BOOLEAN]

DefinitionBodies == {"nil", "string", "map", "other"}

ApiResources == [DefinitionUri : DefinitionUris, DefinitionBody : DefinitionBodies]

InlineTextApi ==
    [DefinitionUri |-> [nil |-> TRUE, String |-> FALSE, S3Location |-> FALSE],
     DefinitionBody |-> "string"]

----------------------------------------------------------------------------
(* parseIntegrationSettings, createMount *)

\* a *ApiGatewayIntegration: nil, or the descriptor with its Uri
NilIntegration == [nil |-> TRUE, Uri |-> NoUri]
Integration(u) == [nil |-> FALSE, Uri |-> u]

\* json.Marshal of the payload then json.Unmarshal into ApiGatewayIntegration{}:
\* "null" leaves the zero descriptor, a non-object or an ill-typed member is an
\* error (logged, nil returned), an object fills the descriptor
parseIntegrationSettings(integrationData) ==
    CASE integrationData.shape = "nil" -> Integration(NoUri)
      [] integrationData.shape = "scalar" -> NilIntegration
      [] integrationData.shape = "object" ->
            IF integrationData.uri.kind = "nonstring"
                THEN NilIntegration
                ELSE Integration(integrationData.uri)

\* the Lambda function named by the integration's URI, or an error and no function
GetFunctionArn(integration) ==
    IF integration.Uri.kind = "lambda"
        THEN [functionName |-> integration.Uri.fn, err |-> FALSE]
        ELSE [functionName |-> "", err |-> TRUE]

ServerlessRouterMount(name, path, method, arn) ==
    [Name |-> name, Path |-> path, Method |-> method, IntegrationArn |-> arn]

\* createMount without line 146: the function is never stored
createMount_DropsArn(path, verb, integration) ==
    ServerlessRouterMount(path, path, verb, "")

createMount(path, verb, integration) ==
    IF integration.nil
        THEN ServerlessRouterMount(path, path, verb, "")
        ELSE ServerlessRouterMount(path, path, verb, GetFunctionArn(integration).functionName)

----------------------------------------------------------------------------
(* The body of Mounts' loop over swagger.Paths.Paths *)

\* PathItem.JSONLookup of a lowercase method name: the *Operation of
\* PathItemProps, nil or not, and never an error
JSONLookup(pathItem, token) == pathItem.ops[token]

\* the extensions of the spec.Operation decoded from the looked-up value:
\* none when the pointer was nil ("null" decodes to the zero Operation)
OperationExtension(operationIface) ==
    IF operationIface.present THEN operationIface.ext ELSE NilPayload

\* the method loop marking mappedMethods under the lowercase name
RECURSIVE MethodLoop_MarksLower(_, _, _)
MethodLoop_MarksLower(path, pathItem, i) ==
    IF i > Len(HttpMethods)
        THEN [mounts |-> <<>>, mapped |-> {}]
        ELSE LET method == HttpMethods[i]
                 integration == OperationExtension(JSONLookup(pathItem, ToLower[method]))
                 rest == MethodLoop_MarksLower(path, pathItem, i + 1)
             IN  IF integration.shape = "nil"
                     THEN rest
                     ELSE [mounts |-> <<createMount(path, ToLower[method],
                                            parseIntegrationSettings(integration))>>
                                        \o rest.mounts,
                           mapped |-> {ToLower[method]} \cup rest.mapped]

\* the method loop dropping the mount whose payload does not parse
RECURSIVE MethodLoop_SkipsUnparsed(_, _, _)
MethodLoop_SkipsUnparsed(path, pathItem, i) ==
    IF i > Len(HttpMethods)
        THEN [mounts |-> <<>>, mapped |-> {}]
        ELSE LET method == HttpMethods[i]
                 integration == OperationExtension(JSONLookup(pathItem, ToLower[method]))
                 rest == MethodLoop_SkipsUnparsed(path, pathItem, i + 1)
             IN  IF integration.shape = "nil" \/ parseIntegrationSettings(integration).nil
                     THEN rest
                     ELSE [mounts |-> <<createMount(path, ToLower[method],
                                            parseIntegrationSettings(integration))>>
                                        \o rest.mounts,
                           mapped |-> {method} \cup rest.mapped]

\* the method loop without the continue of lines 67-69: every operation found is mounted
RECURSIVE MethodLoop_MountsEveryOperation(_, _, _)
MethodLoop_MountsEveryOperation(path, pathItem, i) ==
    IF i > Len(HttpMethods)
        THEN [mounts |-> <<>>, mapped |-> {}]
        ELSE LET method == HttpMethods[i]
                 operationIface == JSONLookup(pathItem, ToLower[method])
                 integration == OperationExtension(operationIface)
                 rest == MethodLoop_MountsEveryOperation(path, pathItem, i + 1)
             IN  IF ~operationIface.present
                     THEN rest
                     ELSE [mounts |-> <<createMount(path, ToLower[method],
                                            parseIntegrationSettings(integration))>>
                                        \o rest.mounts,
                           mapped |-> {method} \cup rest.mapped]

\* lines 57-78 from method i on: the mounts appended and the methods marked
RECURSIVE MethodLoop(_, _, _)
MethodLoop(path, pathItem, i) ==
    IF i > Len(HttpMethods)
        THEN [mounts |-> <<>>, mapped |-> {}]
        ELSE LET method == HttpMethods[i]
                 integration == OperationExtension(JSONLookup(pathItem, ToLower[method]))
                 rest == MethodLoop(path, pathItem, i + 1)
             IN  IF integration.shape = "nil"
                     THEN rest
                     ELSE [mounts |-> <<createMount(path, ToLower[method],
                                            parseIntegrationSettings(integration))>>
                                        \o rest.mounts,
                           mapped |-> {method} \cup rest.mapped]

\* lines 83-93: json.Marshal of the extension then json.Unmarshal into
\* ApiGatewayAnyMethod{}: an error unless the value is an object or null
AnyMethodObject(anyMethod) ==
    CASE anyMethod.shape = "scalar" -> [err |-> TRUE, IntegrationSettings |-> NilPayload]
      [] anyMethod.shape = "null" -> [err |-> FALSE, IntegrationSettings |-> NilPayload]
      [] anyMethod.shape = "object" ->
            [err |-> FALSE, IntegrationSettings |-> anyMethod.integration]

\* the any-method loop without the mappedMethods test of line 96
RECURSIVE AnyMethodLoop_IgnoresMapped(_, _, _, _)
AnyMethodLoop_IgnoresMapped(path, anyMethodObject, mapped, i) ==
    IF i > Len(HttpMethods)
        THEN <<>>
        ELSE <<createMount(path, ToLower[HttpMethods[i]],
                   parseIntegrationSettings(anyMethodObject.IntegrationSettings))>>
                 \o AnyMethodLoop_IgnoresMapped(path, anyMethodObject, mapped, i + 1)

\* lines 95-102 from method i on
RECURSIVE AnyMethodLoop(_, _, _, _)
AnyMethodLoop(path, anyMethodObject, mapped, i) ==
    IF i > Len(HttpMethods)
        THEN <<>>
        ELSE LET method == HttpMethods[i]
                 rest == AnyMethodLoop(path, anyMethodObject, mapped, i + 1)
             IN  IF method \notin mapped
                     THEN <<createMount(path, ToLower[method],
                                parseIntegrationSettings(anyMethodObject.IntegrationSettings))>>
                              \o rest
                     ELSE rest

ErrAnyMethod == "Could not unmarshal any method josn to object model"

\* the iteration skipping the any-method loop, instead of returning, when the
\* extension does not decode
PathBody_SkipsUndecodable(path, pathItem) ==
    LET explicit == MethodLoop(path, pathItem, 1)
        available == pathItem.any.shape # "absent"
        anyMethodObject == AnyMethodObject(pathItem.any)
    IN  [err |-> NIL,
         explicit |-> explicit.mounts,
         wildcard |-> IF available /\ ~anyMethodObject.err
                         THEN AnyMethodLoop(path, anyMethodObject, explicit.mapped, 1)
                         ELSE <<>>,
         mapped |-> explicit.mapped]

\* one iteration of the loop over the paths: the error it returns, or the
\* mounts of the method loop and of the any-method loop, and mappedMethods.
\* The json.Marshal calls of lines 62 and 83 take values that were decoded
\* from JSON and do not fail, so lines 63-65 and 84-86 return nothing here.
PathBody(path, pathItem) ==
    LET explicit == MethodLoop(path, pathItem, 1)
        available == pathItem.any.shape # "absent"
        anyMethodObject == AnyMethodObject(pathItem.any)
    IN  IF available /\ anyMethodObject.err
            THEN [err |-> ErrAnyMethod, explicit |-> explicit.mounts, wildcard |-> <<>>,
                  mapped |-> explicit.mapped]
            ELSE [err |-> NIL,
                  explicit |-> explicit.mounts,
                  wildcard |-> IF available
                                  THEN AnyMethodLoop(path, anyMethodObject, explicit.mapped, 1)
                                  ELSE <<>>,
                  mapped |-> explicit.mapped]

----------------------------------------------------------------------------
(* Swagger *)

\* Swagger looking at DefinitionBody before DefinitionUri
SwaggerSource_BodyFirst(a) ==
    IF a.DefinitionBody = "string"
        THEN "getSwaggerFromString"
    ELSE IF a.DefinitionBody = "map"
        THEN "getSwaggerFromMap"
    ELSE IF ~a.DefinitionUri.nil /\ a.DefinitionUri.String
        THEN "getSwaggerFromURI"
    ELSE IF ~a.DefinitionUri.nil /\ a.DefinitionUri.S3Location
        THEN "getSwaggerFromS3Location"
    ELSE "none"

\* Swagger without the type switch: any non-nil DefinitionBody is read as text
SwaggerSource_AnyBody(a) ==
    IF ~a.DefinitionUri.nil /\ a.DefinitionUri.String
        THEN "getSwaggerFromURI"
    ELSE IF ~a.DefinitionUri.nil /\ a.DefinitionUri.S3Location
        THEN "getSwaggerFromS3Location"
    ELSE IF a.DefinitionBody # "nil"
        THEN "getSwaggerFromString"
    ELSE "none"

\* lines 158-186: the reader Swagger calls, or none
SwaggerSource(a) ==
    IF ~a.DefinitionUri.nil /\ a.DefinitionUri.String
        THEN "getSwaggerFromURI"
    ELSE IF ~a.DefinitionUri.nil /\ a.DefinitionUri.S3Location
        THEN "getSwaggerFromS3Location"
    ELSE IF a.DefinitionBody # "nil" /\ a.DefinitionBody = "string"
        THEN "getSwaggerFromString"
    ELSE IF a.DefinitionBody # "nil" /\ a.DefinitionBody = "map"
        THEN "getSwaggerFromMap"
    ELSE "none"

ErrNoDefinition == "no swagger definition found"
ErrReadFile == "Cannot read local Swagger definition"
ErrGetObject == "Error while fetching Swagger template from S3"
ErrReadBody == "Cannot read s3 Swagger boject body"
ErrMarshal == "json: unsupported type"
ErrParse == "Cannot parse Swagger definition"

NoBytes == [nil |-> TRUE, data |-> Garbage]
Bytes(d) == [nil |-> FALSE, data |-> d]

NoReturn == [returned |-> FALSE, nilMounts |-> TRUE, mounts |-> <<>>, err |-> NIL]
\* "return mounts, err" instead of "return nil, err"
ReturnError_KeepsMounts(e) ==
    [returned |-> TRUE, nilMounts |-> FALSE, mounts |-> mounts, err |-> e]

ReturnError(e) == [returned |-> TRUE, nilMounts |-> TRUE, mounts |-> <<>>, err |-> e]
ReturnMounts(ms) == [returned |-> TRUE, nilMounts |-> FALSE, mounts |-> ms, err |-> NIL]

\* lines 36-41 of Mounts with the outcome of api.Swagger(): the bytes are kept,
\* or the error is returned as it is
SwaggerReturns(reader, data, err) ==
    /\ pc = "start"
    /\ SwaggerSource(api) = reader
    /\ consulted' = IF reader = "none" THEN consulted ELSE consulted \cup {reader}
    /\ stages' = Append(stages, "swagger")
    /\ IF err = NIL
          THEN /\ jsonDefinition' = Bytes(data)
               /\ pc' = "parse"
               /\ ret' = ret
          ELSE /\ jsonDefinition' = NoBytes
               /\ pc' = "done"
               /\ ret' = ReturnError(err)
    /\ UNCHANGED <<api, text, todo, mounts, origin, mappedMethods>>

\* ioutil.ReadFile of the URI succeeds or fails
getSwaggerFromURI ==
    \/ SwaggerReturns("getSwaggerFromURI", text, NIL)
    \/ SwaggerReturns("getSwaggerFromURI", text, ErrReadFile)

\* GetObject fails, or reading the body fails, or the body is read
getSwaggerFromS3Location ==
    \/ SwaggerReturns("getSwaggerFromS3Location", text, NIL)
    \/ SwaggerReturns("getSwaggerFromS3Location", text, ErrGetObject)
    \/ SwaggerReturns("getSwaggerFromS3Location", text, ErrReadBody)

getSwaggerFromString ==
    SwaggerReturns("getSwaggerFromString", text, NIL)

\* json.Marshal of the map succeeds, or fails on a value JSON cannot hold
getSwaggerFromMap ==
    \/ SwaggerReturns("getSwaggerFromMap", text, NIL)
    \/ SwaggerReturns("getSwaggerFromMap", text, ErrMarshal)

NoSwaggerDefinition ==
    SwaggerReturns("none", text, ErrNoDefinition)

----------------------------------------------------------------------------
(* Mounts after Swagger *)

\* lines 42-47: swagger.UnmarshalJSON(jsonDefinition)
UnmarshalJSON ==
    /\ pc = "parse"
    /\ stages' = Append(stages, "parse")
    /\ IF jsonDefinition.data.kind = "garbage"
          THEN /\ pc' = "done"
               /\ ret' = ReturnError(ErrParse)
          ELSE /\ pc' = "range"
               /\ ret' = ret
    /\ UNCHANGED <<api, text, jsonDefinition, consulted, todo, mounts, origin, mappedMethods>>

\* lines 49-51: the empty slice, then swagger.Paths.Paths is evaluated for the
\* range; swagger.Paths is a nil pointer when the document has no "paths"
RangePaths ==
    /\ pc = "range"
    /\ stages' = Append(stages, "extract")
    /\ mounts' = <<>>
    /\ origin' = <<>>
    /\ IF jsonDefinition.data.kind = "nopaths"
          THEN /\ pc' = "panic"
               /\ todo' = {}
          ELSE /\ pc' = "loop"
               /\ todo' = DOMAIN jsonDefinition.data.paths
    /\ UNCHANGED <<api, text, jsonDefinition, consulted, mappedMethods, ret>>

Fill(n, v) == [i \in 1..n |-> v]

\* lines 51-104: one iteration, on any path not yet visited (map order)
PathIteration ==
    /\ pc = "loop"
    /\ \E path \in todo :
          LET r == PathBody(path, jsonDefinition.data.paths[path])
          IN  /\ todo' = todo \ {path}
              /\ mappedMethods' = [p \in DOMAIN mappedMethods \cup {path} |->
                                      IF p = path THEN r.mapped ELSE mappedMethods[p]]
              /\ mounts' = mounts \o r.explicit \o r.wildcard
              /\ origin' = origin \o Fill(Len(r.explicit), "method")
                                  \o Fill(Len(r.wildcard), "any-method")
              /\ IF r.err # NIL
                    THEN /\ pc' = "done"
                         /\ ret' = ReturnError(r.err)
                    ELSE /\ pc' = "loop"
                         /\ ret' = ret
    /\ UNCHANGED <<api, text, jsonDefinition, consulted, stages>>

\* line 106
ReturnMountList ==
    /\ pc = "loop"
    /\ todo = {}
    /\ pc' = "done"
    /\ ret' = ReturnMounts(mounts)
    /\ UNCHANGED <<api, text, jsonDefinition, consulted, stages, todo, mounts, origin,
                   mappedMethods>>

----------------------------------------------------------------------------

\* every API resource with the small definitions, and every document of the
\* two families as inline text
Init ==
    /\ \/ /\ api \in ApiResources
          /\ text \in SmallDefinitions
       \/ /\ api = InlineTextApi
          /\ \E o \in [Verbs -> WideOperations], a \in AnyMethods :
                text = WideDocument(o, a)
       \/ /\ api = InlineTextApi
          /\ \E S \in SlotSets :
                \E f \in [S -> OpPayloads], a \in [PathNames -> AnyMethods] :
                    text = CrossDocument(S, f, a)
    /\ pc = "start"
    /\ jsonDefinition = NoBytes
    /\ consulted = {}
    /\ stages = <<>>
    /\ todo = {}
    /\ mounts = <<>>
    /\ origin = <<>>
    /\ mappedMethods = <<>>
    /\ ret = NoReturn

Next ==
    \/ getSwaggerFromURI
    \/ getSwaggerFromS3Location
    \/ getSwaggerFromString
    \/ getSwaggerFromMap
    \/ NoSwaggerDefinition
    \/ UnmarshalJSON
    \/ RangePaths
    \/ PathIteration
    \/ ReturnMountList

Spec == Init /\ [][Next]_vars

----------------------------------------------------------------------------
(* What the claims speak of, stated on the document and the returned list *)

SupportedMethods ==
    {[name |-> "GET", verb |-> "get"], [name |-> "POST", verb |-> "post"],
     [name |-> "PUT", verb |-> "put"], [name |-> "DELETE", verb |-> "delete"],
     [name |-> "PATCH", verb |-> "patch"], [name |-> "HEAD", verb |-> "head"],
     [name |-> "OPTIONS", verb |-> "options"]}

\* the document was parsed and its paths are being, or were, walked
Extracting == pc \in {"loop", "done"} /\ Len(stages) = 3

DocPaths == IF Extracting THEN DOMAIN jsonDefinition.data.paths ELSE {}

Item(p) == jsonDefinition.data.paths[p]

OperationOf(p, m) == Item(p).ops[m.verb]

\* the operation is there and carries the routing-integration extension
Carries(p, m) == OperationOf(p, m).present /\ OperationOf(p, m).ext.shape # "nil"

HasAnyMethod(p) == Item(p).any.shape # "absent"

\* the any-method payload does not have the wildcard shape {integration: ...}
AnyMethodUndecodable(p) == Item(p).any.shape = "scalar"

\* the handler an integration payload names, "" when it names none
Resolved(payload) ==
    IF payload.shape = "object" /\ payload.uri.kind = "lambda" THEN payload.uri.fn ELSE ""

\* the payload does not decode into the descriptor, or names no handler
Malformed(payload) == payload.shape # "nil" /\ Resolved(payload) = ""

ExplicitlyMapped(p) == {m \in SupportedMethods : Carries(p, m)}

Succeeded == ret.returned /\ ret.err = NIL

Failed == ret.returned /\ ret.err # NIL

Returned(i) == ret.mounts[i]

\* positions of the returned list holding a mount of the path and method
MountsOf(p, m) ==
    {i \in 1..Len(ret.mounts) : Returned(i).Path = p /\ Returned(i).Method = m.verb}

WildcardMountsOf(p) ==
    {i \in 1..Len(ret.mounts) : Returned(i).Path = p /\ origin[i] = "any-method"}

MethodMountsOf(p) ==
    {i \in 1..Len(ret.mounts) : Returned(i).Path = p /\ origin[i] = "method"}

Mount(p, m, h) == [Name |-> p, Path |-> p, Method |-> m.verb, IntegrationArn |-> h]

\* the mounts a path and method are to have, from that path's own content only
Expected(p, m) ==
    IF Carries(p, m)
        THEN {Mount(p, m, Resolved(OperationOf(p, m).ext))}
    ELSE IF HasAnyMethod(p)
        THEN {Mount(p, m, Resolved(Item(p).any.integration))}
    ELSE {}

HasExplicitMount(p, m) ==
    \E i \in MethodMountsOf(p) : Returned(i) = Mount(p, m, Resolved(OperationOf(p, m).ext))

----------------------------------------------------------------------------
(* C1 *)

----------------------------------------------------------------------------
(* C2 *)

\* the wildcard-derived mounts of the path are one per supported method that is
\* not explicitly mapped, 7 - N in all, each with the any-method's handler
WildcardFillsGaps(p) ==
    /\ Cardinality(WildcardMountsOf(p)) = 7 - Cardinality(ExplicitlyMapped(p))
    /\ \A m \in SupportedMethods \ ExplicitlyMapped(p) :
          \E i \in WildcardMountsOf(p) :
              Returned(i) = Mount(p, m, Resolved(Item(p).any.integration))
    /\ \A m \in ExplicitlyMapped(p) :
          \A i \in WildcardMountsOf(p) : Returned(i).Method # m.verb

C2_WitnessAllMapped ==
    /\ Succeeded
    /\ \E p \in DocPaths :
          /\ HasAnyMethod(p)
          /\ Cardinality(ExplicitlyMapped(p)) = 7
          /\ WildcardMountsOf(p) = {}

----------------------------------------------------------------------------
(* C3 *)

\* C3: no (Path, Method) pair appears twice in the list one call returns.
C3_NoDuplicates ==
    \A i, j \in 1..Len(ret.mounts) :
        (Returned(i).Path = Returned(j).Path /\ Returned(i).Method = Returned(j).Method)
            => i = j

C3_Witness ==
    /\ Succeeded
    /\ Len(ret.mounts) > 7
    /\ \E p \in DocPaths : MethodMountsOf(p) # {} /\ WildcardMountsOf(p) # {}
    /\ \E i, j \in 1..Len(ret.mounts) : Returned(i).Path # Returned(j).Path

----------------------------------------------------------------------------
(* C4 *)

----------------------------------------------------------------------------
(* C5 *)

\* C5: when the definition is the inline text "{}" (no paths key), Mounts
\* succeeds and returns an empty mount list; it neither errs nor aborts.
C5_EmptyDocument ==
    (api = InlineTextApi /\ text = NoPathsDocument /\ Len(stages) = 3) =>
        /\ pc # "panic"
        /\ pc = "done" => ret = ReturnMounts(<<>>)

----------------------------------------------------------------------------
(* C6 *)

\* the path and method have exactly one mount, with no handler, and the method
\* is marked; every other path and method has the mounts its own content gives
MalformedStillMounted(p, m) ==
    /\ Cardinality(MountsOf(p, m)) = 1
    /\ \A i \in MountsOf(p, m) : Returned(i) = Mount(p, m, "") /\ origin[i] = "method"
    /\ m.name \in mappedMethods[p]
    /\ \A q \in DocPaths : \A n \in SupportedMethods :
          (q # p \/ n # m) =>
              /\ {Returned(i) : i \in MountsOf(q, n)} = Expected(q, n)
              /\ Cardinality(MountsOf(q, n)) = Cardinality(Expected(q, n))

----------------------------------------------------------------------------
(* C7 *)

\* the definition-source variants in the order of the claim, each with the
\* reader that reads it and whether the resource populates it
SourceOrder ==
    <<[reader |-> "getSwaggerFromURI",
       populated |-> ~api.DefinitionUri.nil /\ api.DefinitionUri.String],
      [reader |-> "getSwaggerFromS3Location",
       populated |-> ~api.DefinitionUri.nil /\ api.DefinitionUri.S3Location],
      [reader |-> "getSwaggerFromString", populated |-> api.DefinitionBody = "string"],
      [reader |-> "getSwaggerFromMap", populated |-> api.DefinitionBody = "map"]>>

PopulatedSources == {i \in 1..4 : SourceOrder[i].populated}

FirstPopulated == CHOOSE i \in PopulatedSources : \A j \in PopulatedSources : i <= j

ReadErrors == {ErrReadFile, ErrGetObject, ErrReadBody, ErrMarshal}

\* C7: Swagger reads the first populated variant in the order local URI,
\* object location, inline text, inline structure, and only that one, whatever
\* else is populated; when reading it fails the error is returned and no other
\* variant is read.
C7_SourcePrecedence ==
    pc # "start" =>
        /\ PopulatedSources # {} => consulted = {SourceOrder[FirstPopulated].reader}
        /\ PopulatedSources = {} => consulted = {}
        /\ ret.err \in ReadErrors => pc = "done" /\ Cardinality(consulted) = 1

C7_Witness ==
    /\ ~api.DefinitionUri.nil
    /\ api.DefinitionUri.String
    /\ api.DefinitionBody = "string"
    /\ pc = "done"
    /\ ret.err = ErrReadFile
    /\ consulted = {"getSwaggerFromURI"}

----------------------------------------------------------------------------
(* C8 *)

Visited(p) == p \in DocPaths /\ p \notin todo

MountsOnPath(p) == {i \in 1..Len(mounts) : mounts[i].Path = p}

\* C8: an operation that is present for a supported method without the
\* routing-integration extension gets no mount from the per-method pass and
\* is not marked explicitly mapped; a path whose operations all lack the
\* extension and which has no any-method extension has no mount at all.
C8_NoExtensionNoMount ==
    \A p \in DocPaths :
        Visited(p) =>
            /\ \A m \in SupportedMethods :
                  (OperationOf(p, m).present /\ ~Carries(p, m)) =>
                      /\ m.name \notin mappedMethods[p]
                      /\ \A i \in MountsOnPath(p) :
                            mounts[i].Method = m.verb => origin[i] = "any-method"
            /\ (ExplicitlyMapped(p) = {} /\ ~HasAnyMethod(p)) =>
                  /\ MountsOnPath(p) = {}
                  /\ \A i \in 1..Len(ret.mounts) : Returned(i).Path # p

C8_Witness ==
    /\ Succeeded
    /\ Len(ret.mounts) > 0
    /\ \E p \in DocPaths :
          /\ \E m \in SupportedMethods : OperationOf(p, m).present /\ ~Carries(p, m)
          /\ ExplicitlyMapped(p) = {}
          /\ ~HasAnyMethod(p)
          /\ MountsOnPath(p) = {}

----------------------------------------------------------------------------
(* C9 *)

NoSourcePopulated ==
    /\ api.DefinitionUri.nil \/ (~api.DefinitionUri.String /\ ~api.DefinitionUri.S3Location)
    /\ api.DefinitionBody \notin {"string", "map"}

\* C9: when no definition-source variant is populated, Swagger fails with "no
\* swagger definition found" and Mounts returns that error and no mount list.
C9_NoDefinition ==
    (NoSourcePopulated /\ pc # "start") =>
        /\ pc = "done"
        /\ ret = ReturnError(ErrNoDefinition)
        /\ stages = <<"swagger">>

C9_Witness ==
    /\ NoSourcePopulated
    /\ ~api.DefinitionUri.nil
    /\ api.DefinitionBody = "other"
    /\ ret.returned
    /\ ret.err = ErrNoDefinition

----------------------------------------------------------------------------
(* C10 *)

StageOrder == <<"swagger", "parse", "extract">>

StageErrors ==
    [st \in {"swagger", "parse", "extract"} |->
        CASE st = "swagger" -> ReadErrors \cup {ErrNoDefinition}
          [] st = "parse" -> {ErrParse}
          [] st = "extract" -> {ErrAnyMethod}]

\* C10: the stages run in the order source resolution, document parsing, mount
\* extraction; Mounts stops at the first that fails and returns its error, no
\* later stage runs, and with an error the returned mount list is nil.
C10_FirstErrorStops ==
    /\ Len(stages) <= 3
    /\ \A k \in 1..Len(stages) : stages[k] = StageOrder[k]
    /\ Failed =>
          /\ pc = "done"
          /\ ret.nilMounts
          /\ ret.mounts = <<>>
          /\ stages # <<>>
          /\ ret.err \in StageErrors[stages[Len(stages)]]
    /\ Succeeded => ~ret.nilMounts /\ stages = StageOrder
    /\ ret.returned => pc = "done"

C10_Witness ==
    /\ Failed
    /\ ret.err = ErrParse
    /\ stages = <<"swagger", "parse">>
    /\ consulted = {"getSwaggerFromS3Location"}

====
